---- MODULE Spec2Model ----
(***************************************************************************)
(* Model of the student-profile page (src/pages/StudentProfile.tsx) and of *)
(* the AI helper module (src/unnamed/part_000).                            *)
(*                                                                         *)
(*   Spec     the profile page: route changes, profile loads, edits, saves *)
(*   SpecAI   the three AI helpers: credential lookup, file read, request, *)
(*            response parsing                                             *)
(*   SpecAvg  calculateAverage applied to arbitrary note values            *)
(***************************************************************************)
EXTENDS Integers, Sequences, FiniteSets

VARIABLES
    \* ---- profile page (StudentProfile.tsx) ----
    isTeacher,      \* prop isTeacher
    id,             \* route parameter from useParams
    student,        \* useState<Student | null>
    classGroup,     \* useState<ClassGroup | null>
    isLoading,      \* useState(true)
    isSaving,       \* useState(false)
    loads,          \* fetchData invocations suspended at an await
    nLoads,         \* number of fetchData invocations started so far
    saves,          \* handleSave invocations suspended at await saveStudent
    nSaves,         \* number of saveStudent calls made so far
    nFailed,        \* number of saveStudent calls that did not succeed
    alerts,         \* the messages passed to alert(), oldest first
    lastEdit,       \* field touched by the last onChange handler, or "none"
    nEdits,         \* number of onChange events handled so far
    \* ---- AI helpers (part_000) ----
    env,            \* process / process.env.API_KEY as seen by getAIClient
    aiOp,           \* which exported function is running
    aiPc,           \* where the running call is suspended
    apiKey,         \* local apiKey of getAIClient for the running call
    ai,             \* result of getAIClient(): "client" or "null"
    answer,         \* how generateContent ended: "none", "text" or "error"
    aiText,         \* response.text of the provider's answer
    aiResult,       \* how the returned promise settled
    netCalls,       \* ai.models.generateContent calls issued by this call
    fileReads,      \* reader.readAsDataURL calls issued by this call
    \* ---- calculateAverage on its own ----
    avgIn,          \* the Student passed to calculateAverage
    avgOut          \* the string it returned, or "none"

pageVars == <<isTeacher, id, student, classGroup, isLoading, isSaving, loads,
              nLoads, saves, nSaves, nFailed, alerts,
              lastEdit, nEdits>>
aiVars == <<env, aiOp, aiPc, apiKey, ai, answer, aiText, aiResult, netCalls,
           fileReads>>
avgVars == <<avgIn, avgOut>>
vars == <<pageVars, aiVars, avgVars>>

\* ------------------------------------------------------------------------
\* Bounds
\* ------------------------------------------------------------------------
MaxOps == 4         \* fetchData runs, edits and submissions per behaviour
MaxNameText == 4    \* length of response.text for name extraction
MaxBody == 3        \* length of the JSON body of response.text for grades
MaxGenText == 2     \* length of response.text for content generation

\* ------------------------------------------------------------------------
\* JavaScript values
\* ------------------------------------------------------------------------
\* A JS value of the kinds a note can hold: a finite number, NaN, undefined
\* or a string (a sequence of one-character strings).
Num(n) == [t |-> "number", n |-> n, s |-> <<>>]
NaN == [t |-> "nan", n |-> 0, s |-> <<>>]
Undef == [t |-> "undefined", n |-> 0, s |-> <<>>]
Str(s) == [t |-> "string", n |-> 0, s |-> s]

Digits == <<"0", "1", "2", "3", "4", "5", "6", "7", "8", "9">>
IsDigit(c) == \E d \in 1..10 : Digits[d] = c
DigitVal(c) == (CHOOSE d \in 1..10 : Digits[d] = c) - 1

\* white space as String.prototype.trim and Number() see it
IsSpace(c) == c \in {" ", "\t", "\r", "\n"}

RECURSIVE TrimStart(_)
TrimStart(s) ==
    IF s # <<>> /\ IsSpace(Head(s)) THEN TrimStart(Tail(s)) ELSE s

RECURSIVE TrimEnd(_)
TrimEnd(s) ==
    IF s # <<>> /\ IsSpace(s[Len(s)]) THEN TrimEnd(SubSeq(s, 1, Len(s) - 1))
    ELSE s

\* String.prototype.trim
Trim(s) == TrimEnd(TrimStart(s))

RECURSIVE DigitsValue(_, _)
DigitsValue(s, acc) ==
    IF s = <<>> THEN acc ELSE DigitsValue(Tail(s), 10 * acc + DigitVal(Head(s)))

AllDigits(s) == s # <<>> /\ \A i \in 1..Len(s) : IsDigit(s[i])

\* a decimal integer literal with an optional sign
IsNumericString(s) ==
    \/ AllDigits(s)
    \/ Len(s) >= 2 /\ s[1] \in {"-", "+"} /\ AllDigits(Tail(s))

\* Number(string): white space is trimmed, the empty string is 0, a numeric
\* literal is its value, anything else is NaN
StringToNumber(s) ==
    LET t == Trim(s) IN
    IF t = <<>> THEN Num(0)
    ELSE IF AllDigits(t) THEN Num(DigitsValue(t, 0))
    ELSE IF IsNumericString(t) THEN
        Num(IF t[1] = "-" THEN 0 - DigitsValue(Tail(t), 0)
            ELSE DigitsValue(Tail(t), 0))
    ELSE NaN

\* Number(v)
Number(v) ==
    CASE v.t = "number" -> v
      [] v.t = "nan" -> NaN
      [] v.t = "undefined" -> NaN
      [] v.t = "string" -> StringToNumber(v.s)

\* Number(v) || 0, as an integer: NaN and 0 are falsy
NumberOrZero(v) == IF Number(v).t = "number" THEN Number(v).n ELSE 0

\* ------------------------------------------------------------------------
\* calculateAverage (StudentProfile.tsx 51-54)
\* ------------------------------------------------------------------------
RECURSIVE IntToDigits(_)
IntToDigits(n) ==
    IF n < 10 THEN <<Digits[n + 1]>>
    ELSE Append(IntToDigits(n \div 10), Digits[(n % 10) + 1])

\* the integer n for which n / 100 - num / den is closest to zero, the larger
\* n on a tie (Number.prototype.toFixed step for x = num / den >= 0)
Hundredths_Truncating(num, den) == (100 * num) \div den
Hundredths(num, den) == (200 * num + den) \div (2 * den)

\* (num / den).toFixed(2): sign, integer digits, ".", exactly two digits
ToFixed2(num, den) ==
    LET neg == num < 0
        n == Hundredths(IF neg THEN 0 - num ELSE num, den)
        m == IntToDigits(n)
        padded == IF Len(m) < 3 THEN
                      [i \in 1..3 |-> IF i <= 3 - Len(m) THEN "0"
                                      ELSE m[i - (3 - Len(m))]]
                  ELSE m
        k == Len(padded)
        body == SubSeq(padded, 1, k - 2) \o <<".">> \o SubSeq(padded, k - 1, k)
    IN IF neg THEN <<"-">> \o body ELSE body

calculateAverage(s) ==
    LET sum == NumberOrZero(s.note1) + NumberOrZero(s.note2)
               + NumberOrZero(s.note3)
    IN ToFixed2(sum, 3)

\* ------------------------------------------------------------------------
\* The store collaborator (services/store): getStudent, getClass
\* ------------------------------------------------------------------------
Null == [null |-> TRUE]
NoId == "undefined"         \* useParams gave no id
NoClassId == "undefined"    \* the student has no classId

MkStudent(i, nm, c, n1, n2, n3) ==
    [id |-> i, name |-> nm, classId |-> c, note1 |-> n1, note2 |-> n2,
     note3 |-> n3]

\* the records the store holds
StoreStudents ==
    { MkStudent("s1", "Ann", "c1", Num(12), Num(15), Num(18)),
      MkStudent("s2", "Bob", NoClassId, Num(10), Undef, Str(<<"a">>)),
      MkStudent("s3", "Cyd", "c9", Num(0), Num(1), Num(1)) }
StoreClasses == { [id |-> "c1", name |-> "Class A"] }

\* ids a route can carry: the stored students and one that is not stored
RouteIds == {"s1", "s2", "s3", "s0"}

getStudent(i) ==
    IF \E s \in StoreStudents : s.id = i
    THEN CHOOSE s \in StoreStudents : s.id = i ELSE Null
getClass(c) ==
    IF \E g \in StoreClasses : g.id = c
    THEN CHOOSE g \in StoreClasses : g.id = c ELSE Null

\* JS truthiness of an id-like string
Truthy(x) == x # "undefined" /\ x # ""

\* ------------------------------------------------------------------------
\* The profile page
\* ------------------------------------------------------------------------
\* fetchData runs, edits and submissions so far
OpsDone == nLoads + nSaves + nEdits

\* the early returns at lines 56 and 64: the form is on screen
FormShown == ~isLoading /\ student # Null

\* line 96: {classGroup?.name || 'Unassigned Class'}
DisplayedClass ==
    IF classGroup # Null /\ classGroup.name # "" THEN classGroup.name
    ELSE "Unassigned Class"

\* the effect at lines 19-34 run for route id i: fetchData up to its first
\* await
StartFetch(i) ==
    IF ~Truthy(i)
    THEN UNCHANGED <<isLoading, loads, nLoads>>
    ELSE /\ isLoading' = TRUE
         /\ nLoads' = nLoads + 1
         /\ loads' = loads \cup
                {[gen |-> nLoads + 1, id |-> i, pc |-> "getStudent",
                  classId |-> NoClassId]}

\* the router hands the mounted page another id; the effect re-runs
ChangeRoute ==
    /\ OpsDone < MaxOps
    /\ \E i \in (RouteIds \cup {NoId}) \ {id} :
        /\ id' = i
        /\ StartFetch(i)
    /\ UNCHANGED <<isTeacher, student, classGroup, isSaving, saves, nSaves,
                   nFailed, alerts, lastEdit, nEdits>>
    /\ UNCHANGED <<aiVars, avgVars>>

\* await getStudent(id) resumes: lines 23-31
GetStudentResolves ==
    /\ \E l \in loads :
        /\ l.pc = "getStudent"
        /\ LET studentData == getStudent(l.id) IN
            /\ student' = studentData
            /\ IF studentData # Null /\ Truthy(studentData.classId)
               THEN /\ loads' = (loads \ {l}) \cup
                        {[l EXCEPT !.pc = "getClass",
                                   !.classId = studentData.classId]}
                    /\ UNCHANGED isLoading
               ELSE /\ loads' = loads \ {l}
                    /\ isLoading' = FALSE
    /\ UNCHANGED <<isTeacher, id, classGroup, isSaving, nLoads, saves, nSaves,
                   nFailed, alerts, lastEdit, nEdits>>
    /\ UNCHANGED <<aiVars, avgVars>>

\* await getClass(classId) resumes: lines 27-31
GetClassResolves ==
    /\ \E l \in loads :
        /\ l.pc = "getClass"
        /\ classGroup' = getClass(l.classId)
        /\ isLoading' = FALSE
        /\ loads' = loads \ {l}
    /\ UNCHANGED <<isTeacher, id, student, isSaving, nLoads, saves, nSaves,
                   nFailed, alerts, lastEdit, nEdits>>
    /\ UNCHANGED <<aiVars, avgVars>>

\* either await of fetchData rejects: fetchData ends there, nothing is set
FetchRejects ==
    /\ \E l \in loads : loads' = loads \ {l}
    /\ UNCHANGED <<isTeacher, id, student, classGroup, isLoading, isSaving,
                   nLoads, saves, nSaves, nFailed, alerts,
                   lastEdit, nEdits>>
    /\ UNCHANGED <<aiVars, avgVars>>

\* values typed into the name field
NameInputs == {"Zed"}
\* texts typed into a type="number" field
NoteInputs == { <<"7">>, <<"x">> }

\* the value a type="number" input reports: the text if it is a number,
\* otherwise the empty string (line 136)
NumberInputValue(raw) == IF IsNumericString(raw) THEN raw ELSE <<>>

\* line 119: setStudent({...student, name: e.target.value})
SetName(s, v) == [s EXCEPT !.name = v]
\* a handler that builds the new object from the edited field alone
SetNote_FieldOnly(s, term, v) ==
    [MkStudent(s.id, s.name, NoClassId, Num(0), Num(0), Num(0))
        EXCEPT ![term] = Number(Str(v))]
\* line 138: setStudent({...student, [term]: Number(e.target.value)})
SetNote(s, term, v) == [s EXCEPT ![term] = Number(Str(v))]

EditName ==
    /\ FormShown /\ isTeacher /\ OpsDone < MaxOps
    /\ \E v \in NameInputs : student' = SetName(student, v)
    /\ lastEdit' = "name"
    /\ nEdits' = nEdits + 1
    /\ UNCHANGED <<isTeacher, id, classGroup, isLoading, isSaving, loads,
                   nLoads, saves, nSaves, nFailed, alerts>>
    /\ UNCHANGED <<aiVars, avgVars>>

EditNote ==
    /\ FormShown /\ isTeacher /\ OpsDone < MaxOps
    /\ \E term \in {"note1", "note2", "note3"}, raw \in NoteInputs :
        /\ student' = SetNote(student, term, NumberInputValue(raw))
        /\ lastEdit' = term
    /\ nEdits' = nEdits + 1
    /\ UNCHANGED <<isTeacher, id, classGroup, isLoading, isSaving, loads,
                   nLoads, saves, nSaves, nFailed, alerts>>
    /\ UNCHANGED <<aiVars, avgVars>>

\* a button that is not disabled while a save is in flight
CanSubmit_NeverDisabled == FormShown /\ isTeacher
\* the submit button exists only for a teacher (line 148) and is disabled
\* while isSaving (line 152)
CanSubmit == FormShown /\ isTeacher /\ ~isSaving

\* the form is submitted: handleSave up to await saveStudent (lines 36-41)
Submit ==
    /\ CanSubmit
    /\ OpsDone < MaxOps
    /\ student # Null
    /\ isSaving' = TRUE
    /\ nSaves' = nSaves + 1
    /\ saves' = saves \cup {[n |-> nSaves + 1, arg |-> student]}
    /\ UNCHANGED <<isTeacher, id, student, classGroup, isLoading, loads,
                   nLoads, nFailed, alerts, lastEdit, nEdits>>
    /\ UNCHANGED <<aiVars, avgVars>>

SavedMsg == "Changes saved successfully!"
FailedMsg == "Failed to save changes."

\* a handler that stores the store's answer before looking at it
AfterSave_StoreFirst(updated) ==
    /\ student' = updated
    /\ IF updated # Null
       THEN /\ alerts' = Append(alerts, SavedMsg)
            /\ UNCHANGED nFailed
       ELSE /\ alerts' = Append(alerts, FailedMsg)
            /\ nFailed' = nFailed + 1
    /\ isSaving' = FALSE

\* what handleSave does with the value saveStudent resolved to (lines 42-48)
AfterSave(updated) ==
    /\ IF updated # Null
       THEN /\ student' = updated
            /\ alerts' = Append(alerts, SavedMsg)
            /\ UNCHANGED nFailed
       ELSE /\ alerts' = Append(alerts, FailedMsg)
            /\ nFailed' = nFailed + 1
            /\ UNCHANGED student
    /\ isSaving' = FALSE

\* saveStudent resolves with the updated record
SaveSucceeds ==
    /\ \E sv \in saves :
        /\ AfterSave(sv.arg)
        /\ saves' = saves \ {sv}
    /\ UNCHANGED <<isTeacher, id, classGroup, isLoading, loads, nLoads,
                   nSaves, lastEdit, nEdits>>
    /\ UNCHANGED <<aiVars, avgVars>>

\* saveStudent resolves with null
SaveReturnsNull ==
    /\ \E sv \in saves :
        /\ AfterSave(Null)
        /\ saves' = saves \ {sv}
    /\ UNCHANGED <<isTeacher, id, classGroup, isLoading, loads, nLoads,
                   nSaves, lastEdit, nEdits>>
    /\ UNCHANGED <<aiVars, avgVars>>

\* saveStudent rejects: await throws out of handleSave at line 41, which has
\* no try/catch, so lines 42-48 do not run
SaveRejects ==
    /\ \E sv \in saves : saves' = saves \ {sv}
    /\ nFailed' = nFailed + 1
    /\ UNCHANGED <<isTeacher, id, student, classGroup, isLoading, isSaving,
                   loads, nLoads, nSaves, alerts, lastEdit,
                   nEdits>>
    /\ UNCHANGED <<aiVars, avgVars>>

\* ------------------------------------------------------------------------
\* Resting values of the parts a specification does not exercise
\* ------------------------------------------------------------------------
NoResult == [st |-> "none", msg |-> "", text |-> <<>>, names |-> <<>>,
             json |-> "none", count |-> 0]

PageIdle ==
    /\ isTeacher = FALSE /\ id = NoId /\ student = Null /\ classGroup = Null
    /\ isLoading = TRUE /\ isSaving = FALSE /\ loads = {} /\ nLoads = 0
    /\ saves = {} /\ nSaves = 0 /\ nFailed = 0 /\ alerts = <<>>
    /\ lastEdit = "none" /\ nEdits = 0

AIIdle ==
    /\ env = [hasProcess |-> FALSE, API_KEY |-> ""]
    /\ aiOp = "none" /\ aiPc = "idle" /\ apiKey = "" /\ ai = "null"
    /\ answer = "none" /\ aiText = <<>> /\ aiResult = NoResult /\ netCalls = 0 /\ fileReads = 0

AvgIdle ==
    /\ avgIn = MkStudent("s0", "", NoClassId, Num(0), Num(0), Num(0))
    /\ avgOut = <<>>

\* ------------------------------------------------------------------------
\* Spec: the profile page
\* ------------------------------------------------------------------------
\* the page after mounting: the useState initial values (lines 14-17) and
\* the first run of the effect
Init ==
    /\ isTeacher \in BOOLEAN
    /\ id \in RouteIds \cup {NoId}
    /\ student = Null
    /\ classGroup = Null
    /\ isLoading = TRUE
    /\ isSaving = FALSE
    /\ IF Truthy(id)
       THEN /\ nLoads = 1
            /\ loads = {[gen |-> 1, id |-> id, pc |-> "getStudent",
                         classId |-> NoClassId]}
       ELSE /\ nLoads = 0
            /\ loads = {}
    /\ saves = {} /\ nSaves = 0 /\ nFailed = 0 /\ alerts = <<>>
    /\ lastEdit = "none" /\ nEdits = 0
    /\ AIIdle /\ AvgIdle

Next ==
    \/ ChangeRoute
    \/ GetStudentResolves
    \/ GetClassResolves
    \/ FetchRejects
    \/ EditName
    \/ EditNote
    \/ Submit
    \/ SaveSucceeds
    \/ SaveReturnsNull
    \/ SaveRejects

Spec == Init /\ [][Next]_vars

\* ------------------------------------------------------------------------
\* AI helpers: response parsing
\* ------------------------------------------------------------------------
\* text.split('\n'): cur is the piece being read, acc the pieces before it
RECURSIVE SplitLines(_, _, _)
SplitLines(s, cur, acc) ==
    IF s = <<>> THEN Append(acc, cur)
    ELSE IF Head(s) = "\n" THEN SplitLines(Tail(s), <<>>, Append(acc, cur))
    ELSE SplitLines(Tail(s), Append(cur, Head(s)), acc)

\* .map(name => name.trim())
MapTrim(lines) == [i \in 1..Len(lines) |-> Trim(lines[i])]

NonEmptyName(name) == Len(name) > 0
\* .filter(name => name.length > 0)
FilterNonEmpty(lines) == SelectSeq(lines, NonEmptyName)

\* a parser that keeps the blank lines
ParseNames_KeepBlank(text) == MapTrim(SplitLines(text, <<>>, <<>>))
\* line 86
ParseNames(text) == FilterNonEmpty(MapTrim(SplitLines(text, <<>>, <<>>)))

\* tokens of a grade response: the code fence, the word json, white space,
\* JSON punctuation, a grade record object, and anything else
Fence == "FENCE"      \* three backquotes
RecordTok == "{r}"

\* the first replace of line 140: a leading fence, json, white space
StripLeadingFence(t) ==
    IF Len(t) >= 2 /\ t[1] = Fence /\ t[2] = "json"
    THEN TrimStart(SubSeq(t, 3, Len(t))) ELSE t

\* the second replace of line 140: white space and a fence at the end
StripTrailingFence(t) ==
    IF t # <<>> /\ t[Len(t)] = Fence
    THEN TrimEnd(SubSeq(t, 1, Len(t) - 1)) ELSE t

\* line 140
StripFences(t) == StripTrailingFence(StripLeadingFence(t))

SyntaxError == [ok |-> FALSE, kind |-> "none", count |-> 0, next |-> 0]
JsonValue(kind, count, next) ==
    [ok |-> TRUE, kind |-> kind, count |-> count, next |-> next]

RECURSIVE SkipWS(_, _)
SkipWS(t, i) == IF i <= Len(t) /\ IsSpace(t[i]) THEN SkipWS(t, i + 1) ELSE i

\* the elements of an array from position i on, n of them already read
RECURSIVE ParseElems(_, _, _)
ParseElems(t, i, n) ==
    LET j == SkipWS(t, i) IN
    IF j > Len(t) \/ t[j] # RecordTok THEN SyntaxError
    ELSE LET k == SkipWS(t, j + 1) IN
         IF k > Len(t) THEN SyntaxError
         ELSE IF t[k] = "," THEN ParseElems(t, k + 1, n + 1)
         ELSE IF t[k] = "]" THEN JsonValue("list", n + 1, k + 1)
         ELSE SyntaxError

ParseValue(t, i) ==
    LET j == SkipWS(t, i) IN
    IF j > Len(t) THEN SyntaxError
    ELSE IF t[j] = RecordTok THEN JsonValue("object", 0, j + 1)
    ELSE IF t[j] = "[" THEN
        LET k == SkipWS(t, j + 1) IN
        IF k <= Len(t) /\ t[k] = "]" THEN JsonValue("list", 0, k + 1)
        ELSE ParseElems(t, j + 1, 0)
    ELSE SyntaxError

\* JSON.parse: one value, white space around it, nothing after it
JSONParse(t) ==
    LET v == ParseValue(t, 1) IN
    IF v.ok /\ SkipWS(t, v.next) > Len(t) THEN v ELSE SyntaxError

\* ------------------------------------------------------------------------
\* AI helpers: how the returned promise settles
\* ------------------------------------------------------------------------
Resolved(msg, text, names, json, count) ==
    [st |-> "resolved", msg |-> msg, text |-> text, names |-> names,
     json |-> json, count |-> count]
Rejected(msg) ==
    [st |-> "rejected", msg |-> msg, text |-> <<>>, names |-> <<>>,
     json |-> "none", count |-> 0]

UnavailableText == "AI Service Unavailable (Missing or Invalid API Key)"
UnavailableNames == "AI Service Unavailable. Check API Key."
UnavailableGrades == "AI Service Unavailable"

\* lines 40, 64, 95: the outcome when getAIClient() returned null
Unavailable(op) ==
    CASE op = "generateSessionContent" ->
            Resolved(UnavailableText, <<>>, <<>>, "none", 0)
      [] op = "extractStudentNamesFromImage" -> Rejected(UnavailableNames)
      [] op = "extractGradesFromImage" -> Rejected(UnavailableGrades)

\* a grade parser that degrades to the empty list the way the name parser does
GradesResult_Swallow(text) ==
    IF text = <<>> THEN Resolved("", <<>>, <<>>, "list", 0)
    ELSE LET v == JSONParse(StripFences(text)) IN
         IF v.ok THEN Resolved("", <<>>, <<>>, v.kind, v.count)
         ELSE Resolved("", <<>>, <<>>, "list", 0)

\* lines 55, 85-86, 136-142: the outcome for response.text = text
GradesResult(text) ==
    IF text = <<>> THEN Resolved("", <<>>, <<>>, "list", 0)
    ELSE LET v == JSONParse(StripFences(text)) IN
         IF v.ok THEN Resolved("", <<>>, <<>>, v.kind, v.count)
         ELSE Rejected("Failed to extract grades from image.")

NamesResult(text) == Resolved("", <<>>, ParseNames(text), "none", 0)

ContentResult(text) ==
    IF text = <<>> THEN Resolved("No content generated.", <<>>, <<>>, "none", 0)
    ELSE Resolved("", text, <<>>, "none", 0)

OnResponse(op, text) ==
    CASE op = "generateSessionContent" -> ContentResult(text)
      [] op = "extractStudentNamesFromImage" -> NamesResult(text)
      [] op = "extractGradesFromImage" -> GradesResult(text)

\* lines 56-59, 87-90, 143-146: the outcome when generateContent rejects
OnProviderError(op) ==
    CASE op = "generateSessionContent" ->
            Resolved("Failed to generate content. Please check your API key settings.",
                     <<>>, <<>>, "none", 0)
      [] op = "extractStudentNamesFromImage" ->
            Rejected("Failed to extract names from image. Please check your API key.")
      [] op = "extractGradesFromImage" ->
            Rejected("Failed to extract grades from image.")

\* ------------------------------------------------------------------------
\* AI helpers: the calls
\* ------------------------------------------------------------------------
Ops == {"generateSessionContent", "extractStudentNamesFromImage",
        "extractGradesFromImage"}
Envs == [hasProcess : BOOLEAN, API_KEY : {"undefined", "", "k"}]

\* lines 4-12: the apiKey local of getAIClient
ReadApiKey(e) ==
    IF e.hasProcess /\ Truthy(e.API_KEY) THEN e.API_KEY ELSE ""

\* a client factory that does not look at the key
getAIClient_NoKeyCheck(e, ctorOk) == IF ctorOk THEN "client" ELSE "null"
\* lines 14-23: ctorOk says whether new GoogleGenAI(...) returned
getAIClient(e, ctorOk) ==
    IF ReadApiKey(e) = "" THEN "null"
    ELSE IF ctorOk THEN "client" ELSE "null"

SeqsUpTo(A, n) == UNION {[1..k -> A] : k \in 0..n}

NameChars == {"A", "b", " ", "\n", "\r"}
NameTexts == SeqsUpTo(NameChars, MaxNameText)
GradeBodies == SeqsUpTo({"[", "]", RecordTok, ",", "\n", "x"}, MaxBody)
GradePrefixes == { <<>>, <<Fence, "json">>, <<Fence, "json", "\n">>, <<Fence>> }
GradeSuffixes == { <<>>, <<Fence>>, <<"\n", Fence>> }
GradeTexts ==
    {p \o b \o s : p \in GradePrefixes, b \in GradeBodies, s \in GradeSuffixes}
ContentTexts == SeqsUpTo({"w"}, MaxGenText)

\* the values response.text can take for a call of op; <<>> stands for the
\* empty string and for an absent text alike
Texts(op) ==
    CASE op = "generateSessionContent" -> ContentTexts
      [] op = "extractStudentNamesFromImage" -> NameTexts
      [] op = "extractGradesFromImage" -> GradeTexts

\* the environment is reconfigured between calls
Configure ==
    /\ aiPc = "idle"
    /\ \E e \in Envs \ {env} : env' = e
    /\ UNCHANGED <<aiOp, aiPc, apiKey, ai, answer, aiText, aiResult,
                   netCalls, fileReads>>
    /\ UNCHANGED <<pageVars, avgVars>>

\* one of the exported functions is called and runs to its first await or
\* to its return
Call ==
    /\ aiPc = "idle"
    /\ \E op \in Ops, ctorOk \in BOOLEAN :
        LET client == getAIClient(env, ctorOk) IN
        /\ aiOp' = op
        /\ apiKey' = ReadApiKey(env)
        /\ ai' = client
        /\ answer' = "none"
        /\ aiText' = <<>>
        /\ IF client = "null"
           THEN /\ aiResult' = Unavailable(op)
                /\ aiPc' = "done"
                /\ netCalls' = 0
                /\ fileReads' = 0
           ELSE IF op = "generateSessionContent"
           THEN /\ aiResult' = NoResult
                /\ aiPc' = "generateContent"
                /\ netCalls' = 1
                /\ fileReads' = 0
           ELSE /\ aiResult' = NoResult
                /\ aiPc' = "readFile"
                /\ netCalls' = 0
                /\ fileReads' = 1
    /\ UNCHANGED env
    /\ UNCHANGED <<pageVars, avgVars>>

\* reader.onloadend: fileToGenerativePart resolves and the request is sent
FileLoaded ==
    /\ aiPc = "readFile"
    /\ aiPc' = "generateContent"
    /\ netCalls' = netCalls + 1
    /\ UNCHANGED <<env, aiOp, apiKey, ai, answer, aiText, aiResult, fileReads>>
    /\ UNCHANGED <<pageVars, avgVars>>

\* reader.onerror: fileToGenerativePart rejects outside the try block
FileError ==
    /\ aiPc = "readFile"
    /\ aiPc' = "done"
    /\ aiResult' = Rejected("FileReader error")
    /\ UNCHANGED <<env, aiOp, apiKey, ai, answer, aiText, netCalls, fileReads>>
    /\ UNCHANGED <<pageVars, avgVars>>

\* generateContent resolves
ProviderResponds ==
    /\ aiPc = "generateContent"
    /\ \E text \in Texts(aiOp) :
        /\ aiText' = text
        /\ aiResult' = OnResponse(aiOp, text)
    /\ answer' = "text"
    /\ aiPc' = "done"
    /\ UNCHANGED <<env, aiOp, apiKey, ai, netCalls, fileReads>>
    /\ UNCHANGED <<pageVars, avgVars>>

\* generateContent rejects
ProviderFails ==
    /\ aiPc = "generateContent"
    /\ aiResult' = OnProviderError(aiOp)
    /\ answer' = "error"
    /\ aiPc' = "done"
    /\ UNCHANGED <<env, aiOp, apiKey, ai, aiText, netCalls, fileReads>>
    /\ UNCHANGED <<pageVars, avgVars>>

\* the caller has taken the outcome; the module keeps nothing between calls
Return ==
    /\ aiPc = "done"
    /\ aiPc' = "idle"
    /\ aiOp' = "none"
    /\ apiKey' = ""
    /\ ai' = "null"
    /\ answer' = "none"
    /\ aiText' = <<>>
    /\ aiResult' = NoResult
    /\ netCalls' = 0
    /\ fileReads' = 0
    /\ UNCHANGED env
    /\ UNCHANGED <<pageVars, avgVars>>

InitAI ==
    /\ env \in Envs
    /\ aiOp = "none" /\ aiPc = "idle" /\ apiKey = "" /\ ai = "null"
    /\ answer = "none" /\ aiText = <<>> /\ aiResult = NoResult /\ netCalls = 0 /\ fileReads = 0
    /\ PageIdle /\ AvgIdle

NextAI ==
    \/ Configure
    \/ Call
    \/ FileLoaded
    \/ FileError
    \/ ProviderResponds
    \/ ProviderFails
    \/ Return

SpecAI == InitAI /\ [][NextAI]_vars

\* ------------------------------------------------------------------------
\* SpecAvg: calculateAverage on its own
\* ------------------------------------------------------------------------
NoteValues ==
    { Num(0), Num(1), Num(12), Num(15), Num(18), Num(20), Num(0 - 2), NaN,
      Undef, Str(<<"a">>), Str(<<"1">>), Str(<<>>) }

InitAvg ==
    /\ avgIn \in {MkStudent("s1", "Ann", NoClassId, n1, n2, n3) :
                    n1 \in NoteValues, n2 \in NoteValues, n3 \in NoteValues}
    /\ avgOut = <<>>
    /\ PageIdle /\ AIIdle

\* line 101: {calculateAverage(student)}
Render ==
    /\ avgOut = <<>>
    /\ avgOut' = calculateAverage(avgIn)
    /\ UNCHANGED avgIn
    /\ UNCHANGED <<pageVars, aiVars>>

NextAvg == Render

SpecAvg == InitAvg /\ [][NextAvg]_vars

\* ========================================================================
\* Properties
\* ========================================================================
\* ---- helpers used only to state the properties ----
Abs(x) == IF x < 0 THEN 0 - x ELSE x

NoCredential == ~env.hasProcess \/ env.API_KEY \in {"undefined", ""}

\* the tokens of t that are not white space
NonWS(t) == SelectSeq(t, LAMBDA c : ~IsSpace(c))

\* the tokens of a JSON array of n grade records, white space left out
ArrayToks(n) ==
    IF n = 0 THEN <<"[", "]">>
    ELSE [i \in 1..(2 * n + 1) |->
            IF i = 1 THEN "["
            ELSE IF i = 2 * n + 1 THEN "]"
            ELSE IF i % 2 = 0 THEN RecordTok ELSE ","]

\* t is JSON text: one record, or an array of records
IsJsonText(t) ==
    \/ NonWS(t) = <<RecordTok>>
    \/ \E n \in 0..Len(t) : NonWS(t) = ArrayToks(n)

\* the lines of a text by position: line k lies between the (k-1)-th and the
\* k-th line break
Breaks(text) == {i \in 1..Len(text) : text[i] = "\n"}
BreakPos(text, k) ==
    IF k = 0 THEN 0
    ELSE IF k > Cardinality(Breaks(text)) THEN Len(text) + 1
    ELSE CHOOSE i \in Breaks(text) :
            Cardinality({j \in Breaks(text) : j < i}) = k - 1
LineAt(text, k) ==
    SubSeq(text, BreakPos(text, k - 1) + 1, BreakPos(text, k) - 1)
\* a line without its leading and trailing white space
Core(line) ==
    LET solid == {i \in 1..Len(line) : ~IsSpace(line[i])} IN
    IF solid = {} THEN <<>>
    ELSE SubSeq(line, CHOOSE i \in solid : \A j \in solid : i <= j,
                      CHOOSE i \in solid : \A j \in solid : i >= j)
\* the trimmed non-blank lines of a text, in order
ExpectedNames(text) ==
    LET kept == {k \in 1..(Cardinality(Breaks(text)) + 1) :
                    Core(LineAt(text, k)) # <<>>}
        nth(j) == CHOOSE k \in kept : Cardinality({m \in kept : m < k}) = j - 1
    IN [j \in 1..Cardinality(kept) |-> Core(LineAt(text, nth(j)))]

\* a note as the average is meant to count it: its number, or 0
NoteOrZero(v) ==
    IF v.t = "number" THEN v.n
    ELSE IF v.t = "string" /\ AllDigits(v.s) THEN DigitsValue(v.s, 0)
    ELSE 0

\* str is digits, a point and exactly two digits, with an optional sign
TwoDecimals(str) ==
    LET u == IF str # <<>> /\ str[1] = "-" THEN Tail(str) ELSE str IN
    /\ Len(u) >= 4
    /\ u[Len(u) - 2] = "."
    /\ \A i \in 1..Len(u) : i # Len(u) - 2 => IsDigit(u[i])
\* the number a two-decimal string denotes, in hundredths
InHundredths(str) ==
    LET neg == str[1] = "-"
        u == IF neg THEN Tail(str) ELSE str
        v == 100 * DigitsValue(SubSeq(u, 1, Len(u) - 3), 0)
             + DigitsValue(SubSeq(u, Len(u) - 1, Len(u)), 0)
    IN IF neg THEN 0 - v ELSE v

FailureReports == Cardinality({i \in 1..Len(alerts) : alerts[i] = FailedMsg})

\* C1: with no API key configured when one of the three helpers is called,
\* the call ends at once with the service-unavailable outcome and has issued
\* no request to the provider and no file read.
C1_NoCredentialNoRequest ==
    (aiPc # "idle" /\ NoCredential) =>
        /\ aiPc = "done"
        /\ netCalls = 0
        /\ fileReads = 0
        /\ aiOp = "generateSessionContent" =>
                aiResult.st = "resolved" /\ aiResult.msg = UnavailableText
        /\ aiOp = "extractStudentNamesFromImage" =>
                aiResult.st = "rejected" /\ aiResult.msg = UnavailableNames
        /\ aiOp = "extractGradesFromImage" =>
                aiResult.st = "rejected" /\ aiResult.msg = UnavailableGrades
C1_Witness ==
    /\ aiPc = "done" /\ NoCredential /\ env.hasProcess
    /\ aiOp = "extractGradesFromImage" /\ aiResult.st = "rejected"

\* C2: extractGradesFromImage fails whenever the response text is non-empty
\* and is not JSON after the fences are stripped, and it returns the empty
\* list only for an empty text or a text whose JSON is the empty list.
C2_GradesUnusableIsAnError ==
    (aiPc = "done" /\ aiOp = "extractGradesFromImage" /\ answer = "text") =>
        /\ (aiText # <<>> /\ ~IsJsonText(StripFences(aiText))) =>
                aiResult.st = "rejected"
        /\ (aiResult.st = "resolved" /\ aiResult.json = "list"
            /\ aiResult.count = 0) =>
                (aiText = <<>> \/ NonWS(StripFences(aiText)) = <<"[", "]">>)
C2_Witness ==
    /\ aiPc = "done" /\ aiOp = "extractGradesFromImage" /\ answer = "text"
    /\ Len(aiText) >= 3 /\ aiText[1] = Fence /\ aiText[2] = "json"
    /\ ~IsJsonText(StripFences(aiText))
    /\ aiResult.st = "rejected"

\* C7: for every response text extractStudentNamesFromImage resolves with
\* the text's lines, each trimmed, the blank ones left out, in their order.
C7_NamesAreTrimmedLines ==
    (aiPc = "done" /\ aiOp = "extractStudentNamesFromImage"
     /\ answer = "text") =>
        /\ aiResult.st = "resolved"
        /\ aiResult.names = ExpectedNames(aiText)
C7_Witness ==
    /\ aiPc = "done" /\ aiOp = "extractStudentNamesFromImage"
    /\ answer = "text"
    /\ aiText = <<" ", "A", "\n", "\n">>
    /\ aiResult.names = << <<"A">> >>

\* C8: calculateAverage is (n1+n2+n3)/3 to the nearest hundredth, written
\* with exactly two decimals, a missing or non-numeric note counting as 0;
\* notes 12, 15, 18 give 15.00.
C8_AverageRoundedToTwoDecimals ==
    avgOut # <<>> =>
        LET s == NoteOrZero(avgIn.note1) + NoteOrZero(avgIn.note2)
                 + NoteOrZero(avgIn.note3)
        IN /\ TwoDecimals(avgOut)
           /\ 2 * Abs(3 * InHundredths(avgOut) - 100 * s) <= 3
           /\ (avgIn.note1 = Num(12) /\ avgIn.note2 = Num(15)
               /\ avgIn.note3 = Num(18)) =>
                    avgOut = <<"1", "5", ".", "0", "0">>
C8_Witness ==
    /\ avgOut = <<"0", ".", "6", "7">>
    /\ avgIn.note1 = Num(1) /\ avgIn.note2 = Undef
    /\ avgIn.note3 = Str(<<"1">>)

\* C3: a save that ends in failure leaves the student state as it was just
\* before the store answered.
C3_FailedSaveKeepsStudent == [][nFailed' > nFailed => student' = student]_vars
C3_Witness ==
    /\ nFailed > 0 /\ Len(alerts) > 0 /\ alerts[Len(alerts)] = FailedMsg
    /\ student # Null /\ nEdits > 0

\* C4: every save that did not succeed has been reported by a failure alert.
C4_EveryFailedSaveReported == nFailed = FailureReports

\* C5: when the form is shown and the student's classId is absent or names
\* no known class, the class shown is the Unassigned placeholder.
C5_UnassignedWhenNoClass ==
    (FormShown /\ (~Truthy(student.classId)
                   \/ getClass(student.classId) = Null)) =>
        DisplayedClass = "Unassigned Class"

\* C6: at most one saveStudent call is outstanding, isSaving is true while
\* it is, and saves are only ever started in teacher mode.
C6_OneSaveInFlight ==
    /\ Cardinality(saves) <= 1
    /\ saves # {} => isSaving
    /\ nSaves > 0 => isTeacher
C6_Witness == saves # {} /\ isSaving /\ FormShown /\ nSaves = 2

\* C9: an edit changes only the edited field of the student, and an edited
\* note is stored as a number.
C9_EditTouchesOneField ==
    [][nEdits' > nEdits =>
        /\ student # Null /\ student' # Null
        /\ lastEdit' \in {"name", "note1", "note2", "note3"}
        /\ \A f \in {"id", "name", "classId", "note1", "note2", "note3"} :
                f # lastEdit' => student'[f] = student[f]
        /\ lastEdit' # "name" => student'[lastEdit'].t = "number"]_vars
C9_Witness ==
    /\ lastEdit = "note2" /\ student # Null /\ student.id = "s2"
    /\ student.note2 = Num(0) /\ student.note3 = Str(<<"a">>)
    /\ student.classId = NoClassId

\* C10: a load superseded by a route change never decides what is shown:
\* isLoading stays true while the load for the current id is outstanding,
\* and once no load is outstanding the student shown is the current id's.
C10_SupersededLoadNeverWins ==
    Truthy(id) =>
        /\ (\E l \in loads : l.gen = nLoads /\ l.id = id) => isLoading
        /\ (loads = {} /\ ~isLoading) =>
                \/ student = Null /\ getStudent(id) = Null
                \/ student # Null /\ student.id = id

====
